---- MODULE Spec2Model ----
(***************************************************************************)
(* Verification model of running-log's Strava synchronisation: the OAuth   *)
(* token lifecycle (webapp/routes/strava.py, webapp/services/strava.py),   *)
(* the paginated fetch, the reconciliation of fetched activities into the  *)
(* runs table, and the request handlers that drive them.                   *)
(*                                                                         *)
(* The specifications share the definitions below; SpecWeb, SpecLog and   *)
(* SpecCli (the pages, the manual log, the command-line log), SpecPlan     *)
(* (the plan import), SpecConv (the conversions, one call at a time) and   *)
(* SpecImport (import calls in sequence) are described where they are      *)
(* defined.                                                                *)
(*   Spec      every request handler is one atomic step (a request runs    *)
(*             to completion); the whole token lifecycle is modelled.      *)
(*   SpecConc  two request workers whose sync_activities_to_db calls       *)
(*             interleave at the granularity of database round trips.      *)
(*                                                                         *)
(* Units: distances are hundredths of a kilometre (Numeric(5,2)), paces    *)
(* hundredths of a minute per kilometre, times abstract clock ticks.       *)
(***************************************************************************)
EXTENDS Integers, Sequences, FiniteSets, TLC

VARIABLES
    runs,      \* the committed rows of table runs
    creds,     \* the committed rows of table strava_tokens
    now,       \* the true current time (seconds since the epoch, scaled)
    tz,        \* the UTC offset of the host's local time zone
    last,      \* what the most recently finished request did and returned
    pc,        \* SpecConc: each worker's position in sync_activities_to_db
    acts,      \* SpecConc: each worker's argument `activities`
    idx,       \* SpecConc: each worker's loop position in `activities`
    pending,   \* SpecConc: each worker's session: Runs added, not committed
    plan,      \* the rows of table training_plan
    today,     \* date.today(), a day number (day 0 is a Monday)
    authed,    \* session['authenticated'] of the one browser session
    lastSync,  \* strava_tokens.last_sync_at: {} (NULL) or {instant}
    cliRuns    \* running_log/db.py: table runs of the command-line log

\* The variables of the pages, the plan and the command-line log.
appVars == <<plan, today, authed, lastSync, cliRuns>>

vars == <<runs, creds, now, tz, last, pc, acts, idx, pending, appVars>>

----------------------------------------------------------------------------
(* Bounds of the model.                                                    *)

MaxTime == 1          \* the clock runs over 0..MaxTime
TokenLife == 1        \* the remote issues tokens valid for TokenLife ticks
MaxListing == 2       \* longest remote activity listing
PerPage == 2          \* page size; stands for per_page = 50 (strava.py:79)
MaxBatch == 2         \* SpecConc: longest argument of one import call
MaxRunId == 3         \* SpecConc: largest primary key of table runs

Procs == {1, 2}
TzOffsets == {-1, 0, 1}
Athletes == {1, 2}

\* strava_activity_id of a Run that was not imported (NULL).
NoId == 0

----------------------------------------------------------------------------
(* The remote side: the activities an athlete has, as the listing endpoint *)
(* describes them.  Activities 1 and 2 are the two of test_strava.py.      *)

RunIds == {1, 2}
ActIds == {1, 2, 3}

Activity(i) ==
    CASE i = 1 -> [id |-> 1, type |-> "Run", distance |-> 5000,
                   moving_time |-> 1500, start_date_local |-> 1]
      [] i = 2 -> [id |-> 2, type |-> "Run", distance |-> 10000,
                   moving_time |-> 3000, start_date_local |-> 2]
      [] OTHER -> [id |-> i, type |-> "Ride", distance |-> 20000,
                   moving_time |-> 3600, start_date_local |-> 1]

\* Sequences over S of length at most n without repetition.
RECURSIVE InjSeqs(_, _)
InjSeqs(S, n) ==
    IF n = 0 THEN {<<>>}
    ELSE LET shorter == InjSeqs(S, n - 1)
         IN shorter \cup
            {Append(s, x) : <<s, x>> \in
                {<<s, x>> \in shorter \X S :
                    /\ Len(s) = n - 1
                    /\ \A i \in 1..Len(s) : s[i] # x}}

\* Sequences over S of length at most n.
RECURSIVE Seqs(_, _)
Seqs(S, n) ==
    IF n = 0 THEN {<<>>}
    ELSE LET shorter == Seqs(S, n - 1)
         IN shorter \cup {Append(s, x) : <<s, x>> \in
                {<<s, x>> \in shorter \X S : Len(s) = n - 1}}

Listings == InjSeqs(ActIds, MaxListing)

\* What the token endpoint answers on success at time t: a fresh pair.
TokenData(athlete, t) ==
    [athlete |-> athlete,
     access_token |-> <<"access", t>>,
     refresh_token |-> <<"refresh", t>>,
     expires_at |-> t + TokenLife]

----------------------------------------------------------------------------
(* Decimal arithmetic of the conversion.                                   *)

\* n / d rounded to an integer, ties to even: Decimal.quantize under the
\* default context (ROUND_HALF_EVEN).  n >= 0, d > 0.
RoundHalfEven(n, d) ==
    LET q == n \div d
        r == n % d
    IN  IF 2 * r < d THEN q
        ELSE IF 2 * r > d THEN q + 1
        ELSE IF q % 2 = 0 THEN q ELSE q + 1

\* Decimal(str(metres / 1000)).quantize(Decimal('0.01')), in hundredths.
DistanceKm(metres) == RoundHalfEven(metres, 10)

\* Mutant of Pace: a pace of zero is stored when the distance is zero.
PaceZeroWithoutDistance(seconds, km) ==
    IF km > 0 THEN {RoundHalfEven(seconds * 10000, 60 * km)} ELSE {0}

\* Decimal(str(seconds / 60 / float(km))).quantize(Decimal('0.01')), in
\* hundredths of a minute per kilometre; a set: empty when km = 0 (None).
Pace(seconds, km) ==
    IF km > 0 THEN {RoundHalfEven(seconds * 10000, 60 * km)} ELSE {}

\* Mutant of ConvertActivity: the Run is built without its
\* strava_activity_id.
ConvertActivityNoId(a) ==
    [date |-> a.start_date_local,
     distance |-> DistanceKm(a.distance),
     duration |-> {a.moving_time},
     pace |-> Pace(a.moving_time, DistanceKm(a.distance)),
     strava_activity_id |-> NoId,
     source |-> "strava"]

\* The Run built from one raw activity (no primary key yet).
ConvertActivity(a) ==
    [date |-> a.start_date_local,
     distance |-> DistanceKm(a.distance),
     duration |-> {a.moving_time},
     pace |-> Pace(a.moving_time, DistanceKm(a.distance)),
     strava_activity_id |-> a.id,
     source |-> "strava"]

----------------------------------------------------------------------------
(* Table runs.                                                             *)

MaxOf(S) == IF S = {} THEN 0 ELSE CHOOSE x \in S : \A y \in S : y <= x

\* A row with its primary key.
WithId(r, i) ==
    [id |-> i, date |-> r.date, distance |-> r.distance,
     duration |-> r.duration, pace |-> r.pace,
     strava_activity_id |-> r.strava_activity_id, source |-> r.source]

\* INSERT of the rows `pend` in order; the key is INTEGER PRIMARY KEY.
InsertRows(store, pend) ==
    LET base == MaxOf({r.id : r \in store})
    IN  store \cup {WithId(pend[i], base + i) : i \in 1..Len(pend)}

\* Mutant of UniqueOK: the column is declared without unique=True.
UniqueNotEnforced(store, pend) == TRUE

\* The UNIQUE constraint on runs.strava_activity_id: may `pend` be
\* inserted into `store`?
UniqueOK(store, pend) ==
    /\ \A i \in 1..Len(pend) :
          pend[i].strava_activity_id # NoId =>
             ~ \E r \in store : r.strava_activity_id = pend[i].strava_activity_id
    /\ \A i, j \in 1..Len(pend) :
          (i # j /\ pend[i].strava_activity_id # NoId) =>
             pend[i].strava_activity_id # pend[j].strava_activity_id

\* Mutant of ExistsRun: the query does not flush the session first, so it
\* sees committed rows only.
ExistsRunCommittedOnly(store, pend, sid) ==
    \E r \in store : r.strava_activity_id = sid

\* Run.query.filter_by(strava_activity_id=sid).first() is not None, as a
\* session sees it: committed rows and its own flushed rows.
ExistsRun(store, pend, sid) ==
    \/ \E r \in store : r.strava_activity_id = sid
    \/ \E i \in 1..Len(pend) : pend[i].strava_activity_id = sid

----------------------------------------------------------------------------
(* services/strava.py                                                      *)

\* datetime.utcnow().timestamp(): utcnow() is a naive datetime and
\* timestamp() reads a naive datetime as local time.
UtcNowTimestamp(t, z) == t - z

IsExpired(tok, t, z) == UtcNowTimestamp(t, z) >= tok.expires_at

\* StravaToken.query.first(): the rows it may return, each as a set of at
\* most one row (no ORDER BY: any row).
FirstToken(cr) == IF cr = {} THEN {{}} ELSE {{r} : r \in cr}

\* Mutant of RefreshAccessToken: the new refresh token is not stored.
RefreshAccessTokenKeepsRefresh(cr, tok, resp) ==
    IF resp = {}
    THEN [raised |-> TRUE, token |-> {}, creds |-> cr, requests |-> 1]
    ELSE LET data == CHOOSE d \in resp : TRUE
             new == [tok EXCEPT !.access_token = data.access_token,
                                !.expires_at = data.expires_at]
         IN  [raised |-> FALSE, token |-> {new},
              creds |-> (cr \ {tok}) \cup {new}, requests |-> 1]

\* `resp` is the token endpoint's answer: {} for a non-success status,
\* {data} otherwise.
RefreshAccessToken(cr, tok, resp) ==
    IF resp = {}
    THEN [raised |-> TRUE, token |-> {}, creds |-> cr, requests |-> 1]
    ELSE LET data == CHOOSE d \in resp : TRUE
             new == [tok EXCEPT !.access_token = data.access_token,
                                !.refresh_token = data.refresh_token,
                                !.expires_at = data.expires_at]
         IN  [raised |-> FALSE, token |-> {new},
              creds |-> (cr \ {tok}) \cup {new}, requests |-> 1]

GetValidToken(cr, first, t, z, resp) ==
    IF first = {}
    THEN [raised |-> FALSE, token |-> {}, creds |-> cr, requests |-> 0]
    ELSE LET tok == CHOOSE r \in first : TRUE
         IN  IF IsExpired(tok, t, z)
             THEN RefreshAccessToken(cr, tok, resp)
             ELSE [raised |-> FALSE, token |-> first, creds |-> cr,
                   requests |-> 0]

\* The slice of the listing the remote returns for one page.
PageOf(listing, page) ==
    SubSeq(listing, (page - 1) * PerPage + 1,
           IF page * PerPage < Len(listing) THEN page * PerPage
           ELSE Len(listing))

IsRun(i) == Activity(i).type = "Run"

\* The while loop of fetch_recent_activities from page `page` on; the
\* request for page failAt fails (0: none does).
RECURSIVE FetchPages(_, _, _, _)

\* Mutant of FetchPages: a failed page request ends the loop and the pages
\* read so far are returned.
FetchPagesKeepsPartial(listing, failAt, page, got) ==
    IF failAt = page
    THEN [raised |-> FALSE, activities |-> got, requests |-> page]
    ELSE LET data == PageOf(listing, page)
             acc == got \o SelectSeq(data, IsRun)
         IN  IF data = <<>>
             THEN [raised |-> FALSE, activities |-> got, requests |-> page]
             ELSE IF Len(data) < PerPage
             THEN [raised |-> FALSE, activities |-> acc, requests |-> page]
             ELSE FetchPages(listing, failAt, page + 1, acc)

\* Mutant of FetchPages: the loop ends at an empty page only, not at a
\* short one.
FetchPagesUntilEmpty(listing, failAt, page, got) ==
    IF failAt = page
    THEN [raised |-> TRUE, activities |-> <<>>, requests |-> page]
    ELSE LET data == PageOf(listing, page)
             acc == got \o SelectSeq(data, IsRun)
         IN  IF data = <<>>
             THEN [raised |-> FALSE, activities |-> got, requests |-> page]
             ELSE FetchPages(listing, failAt, page + 1, acc)

FetchPages(listing, failAt, page, got) ==
    IF failAt = page
    THEN [raised |-> TRUE, activities |-> <<>>, requests |-> page]
    ELSE LET data == PageOf(listing, page)
             acc == got \o SelectSeq(data, IsRun)
         IN  IF data = <<>>
             THEN [raised |-> FALSE, activities |-> got, requests |-> page]
             ELSE IF Len(data) < PerPage
             THEN [raised |-> FALSE, activities |-> acc, requests |-> page]
             ELSE FetchPages(listing, failAt, page + 1, acc)

FetchRecentActivities(listing, failAt) == FetchPages(listing, failAt, 1, <<>>)

\* The number of page requests a fetch of `listing` issues when none fails.
PagesOf(listing) == FetchRecentActivities(listing, 0).requests

\* Mutant of ImportOne: the activity is converted and added without the
\* check for an existing Run.
ImportOneUnchecked(store, pend, i) ==
    Append(pend, ConvertActivity(Activity(i)))

\* One iteration of the loop of sync_activities_to_db for activity id i:
\* the session's rows after it.
ImportOne(store, pend, i) ==
    IF ExistsRun(store, pend, i) THEN pend
    ELSE Append(pend, ConvertActivity(Activity(i)))

\* The loop from position k on, run without interruption.  failAt = k:
\* the k-th iteration raises (its flush or its conversion fails).
RECURSIVE ImportLoop(_, _, _, _, _)
ImportLoop(store, input, k, pend, failAt) ==
    IF k > Len(input) THEN [raised |-> FALSE, pending |-> pend]
    ELSE IF failAt = k \/ ~ UniqueOK(store, pend)
    THEN [raised |-> TRUE, pending |-> <<>>]
    ELSE ImportLoop(store, input, k + 1, ImportOne(store, pend, input[k]),
                    failAt)

\* sync_activities_to_db run without interruption.  failAt = Len(input)+1:
\* the commit fails.
SyncActivitiesToDb(store, input, failAt) ==
    LET loop == ImportLoop(store, input, 1, <<>>, failAt)
    IN  IF \/ loop.raised
           \/ failAt = Len(input) + 1
           \/ ~ UniqueOK(store, loop.pending)
        THEN [raised |-> TRUE, runs |-> store, synced |-> 0, skipped |-> 0]
        ELSE [raised |-> FALSE,
              runs |-> InsertRows(store, loop.pending),
              synced |-> Len(loop.pending),
              skipped |-> Len(input) - Len(loop.pending)]

\* What a request leaves in `last`.
Result(op, outcome, error) ==
    [op |-> op, outcome |-> outcome, error |-> error, synced |-> 0,
     skipped |-> 0, input |-> <<>>, requests |-> 0, refreshed |-> FALSE,
     page_failed |-> FALSE, athlete |-> 0]

\* Mutant of TokenIsNone: the check for a missing token is left out.
TokenIsNoneNever(token) == FALSE

\* `if token is None` of sync_from_strava.
TokenIsNone(token) == token = {}

\* sync_from_strava: the stores after it and what it returns or raises.
\* first: the row first() returns; resp: the refresh answer; listing: the
\* remote listing; fetchFail, storeFail: where the fetch and the import
\* fail (0: nowhere).
SyncFromStrava(op, cr, rs, first, t, z, resp, listing, fetchFail, storeFail) ==
    LET got == GetValidToken(cr, first, t, z, resp)
        fetched == FetchRecentActivities(listing, fetchFail)
        imported == SyncActivitiesToDb(rs, fetched.activities, storeFail)
        refreshed == got.requests > 0
        pageFailed == fetchFail \in 1..PagesOf(listing)
    IN  IF got.raised
        THEN [creds |-> got.creds, runs |-> rs,
              result |-> [Result(op, "raised", "AuthError") EXCEPT
                             !.requests = got.requests,
                             !.refreshed = refreshed]]
        ELSE IF TokenIsNone(got.token)
        THEN [creds |-> got.creds, runs |-> rs,
              result |-> Result(op, "not_connected", "none")]
        ELSE IF fetched.raised
        THEN [creds |-> got.creds, runs |-> rs,
              result |-> [Result(op, "api_error", "FetchError") EXCEPT
                             !.requests = got.requests + fetched.requests,
                             !.refreshed = refreshed,
                             !.page_failed = pageFailed]]
        ELSE IF imported.raised
        THEN [creds |-> got.creds, runs |-> rs,
              result |-> [Result(op, "raised", "StoreError") EXCEPT
                             !.requests = got.requests + fetched.requests,
                             !.refreshed = refreshed,
                             !.page_failed = pageFailed,
                             !.input = fetched.activities]]
        ELSE [creds |-> got.creds, runs |-> imported.runs,
              result |-> [Result(op, "ok", "none") EXCEPT
                             !.requests = got.requests + fetched.requests,
                             !.refreshed = refreshed,
                             !.page_failed = pageFailed,
                             !.input = fetched.activities,
                             !.synced = imported.synced,
                             !.skipped = imported.skipped]]

----------------------------------------------------------------------------
(* The environment's choices for one sync_from_strava call, each drawn     *)
(* only where the call gets far enough to see it.                          *)

\* The token endpoint's possible answers to a refresh at time t.
RefreshReplies(athlete, t) ==
    {{}, {TokenData(athlete, t)}}

RefreshChoices(first, t, z) ==
    IF first # {} /\ \E r \in first : IsExpired(r, t, z)
    THEN UNION {RefreshReplies(r.athlete, t) : r \in first}
    ELSE {{}}

\* Does the call reach the fetch?
ReachesFetch(cr, first, t, z, resp) ==
    LET got == GetValidToken(cr, first, t, z, resp)
    IN  ~ got.raised /\ got.token # {}

ListingChoices(cr, first, t, z, resp) ==
    IF ReachesFetch(cr, first, t, z, resp) THEN Listings ELSE {<<>>}

FetchFailChoices(cr, first, t, z, resp, listing) ==
    IF ReachesFetch(cr, first, t, z, resp) THEN 0..PagesOf(listing) ELSE {0}

StoreFailChoices(cr, first, t, z, resp, listing, fetchFail) ==
    IF ReachesFetch(cr, first, t, z, resp) /\ fetchFail = 0
    THEN 0..(Len(FetchRecentActivities(listing, 0).activities) + 1)
    ELSE {0}

----------------------------------------------------------------------------
(* Spec: the request handlers, one atomic step each.                       *)

Idle == [p \in Procs |-> "idle"]
NoActs == [p \in Procs |-> <<>>]

Init ==
    /\ runs = {}
    /\ creds = {}
    /\ now = 0
    /\ tz \in TzOffsets
    /\ last = Result("init", "none", "none")
    /\ pc = Idle
    /\ acts = NoActs
    /\ idx = [p \in Procs |-> 0]
    /\ pending = NoActs
    /\ plan = {}
    /\ today = 0
    /\ authed = TRUE
    /\ lastSync = {}
    /\ cliRuns = {}

\* Time passes between requests.
Tick ==
    /\ now < MaxTime
    /\ now' = now + 1
    /\ UNCHANGED <<runs, creds, tz, last, pc, acts, idx, pending, appVars>>

\* routes/strava.py sync -> sync_from_strava(days=30).
SyncWith(first, resp, listing, fetchFail, storeFail) ==
    LET s == SyncFromStrava("sync", creds, runs, first, now, tz, resp,
                            listing, fetchFail, storeFail)
    IN  /\ creds' = s.creds
        /\ runs' = s.runs
        /\ last' = s.result
        /\ UNCHANGED <<now, tz, pc, acts, idx, pending, appVars>>

Sync ==
    \E first \in FirstToken(creds) :
    \E resp \in RefreshChoices(first, now, tz) :
    \E listing \in ListingChoices(creds, first, now, tz, resp) :
    \E fetchFail \in FetchFailChoices(creds, first, now, tz, resp, listing) :
    \E storeFail \in StoreFailChoices(creds, first, now, tz, resp, listing,
                                      fetchFail) :
        SyncWith(first, resp, listing, fetchFail, storeFail)

\* Mutant of UpsertToken: the lookup by athlete_id is left out and a row
\* is always added.
UpsertTokenAlwaysAdds(cr, data) == cr \cup {data}

\* The upsert of callback: the row of data.athlete is overwritten, or a
\* new row is added.
UpsertToken(cr, data) ==
    IF \E r \in cr : r.athlete = data.athlete
    THEN {IF r.athlete = data.athlete
          THEN [r EXCEPT !.access_token = data.access_token,
                         !.refresh_token = data.refresh_token,
                         !.expires_at = data.expires_at]
          ELSE r : r \in cr}
    ELSE cr \cup {data}

\* routes/strava.py callback without a usable code (error or no code).
CallbackNoCode ==
    /\ last' = Result("callback", "no_code", "none")
    /\ UNCHANGED <<runs, creds, now, tz, pc, acts, idx, pending, appVars>>

\* callback whose code the token endpoint rejects: exchange_code_for_token
\* raises and callback's except clause reports it.
CallbackRejected ==
    /\ last' = [Result("callback", "exchange_failed", "AuthError")
                   EXCEPT !.requests = 1]
    /\ UNCHANGED <<runs, creds, now, tz, pc, acts, idx, pending, appVars>>

\* callback whose code is exchanged for `data`: upsert, commit, then
\* sync_from_strava(days=30) inside the same try block.
CallbackWith(a, cr, first, resp, listing, fetchFail, storeFail) ==
    LET s == SyncFromStrava("callback", cr, runs, first, now, tz, resp,
                            listing, fetchFail, storeFail)
    IN  /\ creds' = s.creds
        /\ runs' = s.runs
        /\ last' = [s.result EXCEPT !.requests = @ + 1, !.athlete = a]
        /\ UNCHANGED <<now, tz, pc, acts, idx, pending, appVars>>

CallbackExchanged ==
    \E a \in Athletes :
    LET cr == UpsertToken(creds, TokenData(a, now))
    IN  \E first \in FirstToken(cr) :
        \E resp \in RefreshChoices(first, now, tz) :
        \E listing \in ListingChoices(cr, first, now, tz, resp) :
        \E fetchFail \in FetchFailChoices(cr, first, now, tz, resp, listing) :
        \E storeFail \in StoreFailChoices(cr, first, now, tz, resp, listing,
                                          fetchFail) :
            CallbackWith(a, cr, first, resp, listing, fetchFail, storeFail)

\* services/strava.py is_strava_connected.
IsStravaConnected(cr) == \E first \in FirstToken(cr) : first # {}

\* Mutant of DisconnectStrava: only the row first() returns is deleted.
DisconnectStravaFirstOnly(cr) ==
    IF cr = {} THEN {} ELSE cr \ {CHOOSE r \in cr : TRUE}

\* services/strava.py disconnect_strava, called by routes/strava.py
\* disconnect: StravaToken.query.delete() and a commit.
DisconnectStrava(cr) == {}

\* Mutant of Disconnect: deleting the credential cascades to the Runs
\* imported through it.
DisconnectCascades ==
    /\ creds' = DisconnectStrava(creds)
    /\ runs' = {r \in runs : r.strava_activity_id = NoId}
    /\ last' = Result("disconnect", "ok", "none")
    /\ UNCHANGED <<now, tz, pc, acts, idx, pending, appVars>>

Disconnect ==
    /\ creds' = DisconnectStrava(creds)
    /\ last' = Result("disconnect", "ok", "none")
    /\ UNCHANGED <<runs, now, tz, pc, acts, idx, pending, appVars>>

Next ==
    \/ Tick
    \/ Sync
    \/ CallbackNoCode
    \/ CallbackRejected
    \/ CallbackExchanged
    \/ Disconnect

Spec == Init /\ [][Next]_vars

----------------------------------------------------------------------------
(* Properties of Spec.  A step that leaves the clock alone is a request;   *)
(* every request writes what it did to `last`.                             *)

SyncOps == {"sync", "callback"}

\* C1: importing the same activities twice in a row: the second import
\* returns (0, size of the input) and adds, changes or removes no Run.
C1_SecondImportIsNoOp ==
    [][(/\ now' = now
        /\ last.op \in SyncOps /\ last.outcome = "ok"
        /\ last'.op \in SyncOps /\ last'.outcome = "ok"
        /\ last'.input = last.input)
       => (/\ last'.synced = 0
           /\ last'.skipped = Len(last'.input)
           /\ runs' = runs)]_vars

\* C1 witness: both activities were imported again and both were skipped.
C1_Witness ==
    /\ last.op = "sync" /\ last.outcome = "ok"
    /\ Len(last.input) = 2 /\ last.synced = 0 /\ last.skipped = 2
    /\ Cardinality(runs) = 2

\* C5: sync never raises an AuthError or a FetchError to its caller.
\* Stated for a host whose local time is UTC, where is_expired reads the
\* clock correctly.
C5_SyncNeverRaisesAuthOrFetch ==
    ~ (/\ tz = 0
       /\ last.op = "sync"
       /\ last.outcome = "raised"
       /\ last.error \in {"AuthError", "FetchError"})

\* C6: without a stored credential sync returns 'not connected', issues
\* no request and changes neither store.
C6_NotConnectedDoesNothing ==
    [][(now' = now /\ last'.op = "sync" /\ creds = {})
       => (/\ last'.outcome = "not_connected"
           /\ last'.requests = 0
           /\ runs' = runs
           /\ creds' = creds)]_vars

\* C6 witness: a sync found no credential, with Runs in the store.
C6_Witness ==
    /\ last.op = "sync" /\ last.outcome = "not_connected"
    /\ creds = {} /\ runs # {}

\* C7: a sync one of whose page requests failed returns the API error,
\* imports nothing and leaves the Run store unchanged.
C7_FailedPageImportsNothing ==
    [][(now' = now /\ last'.op \in SyncOps /\ last'.page_failed)
       => (/\ last'.outcome = "api_error"
           /\ last'.input = <<>>
           /\ last'.synced = 0
           /\ runs' = runs)]_vars

\* C7 witness: the first page was read and the second request failed.
C7_Witness ==
    /\ last.op = "sync" /\ last.page_failed
    /\ ~ last.refreshed /\ last.requests = 2

\* C8: get_valid_token returns None without a credential and otherwise
\* refreshes exactly when the expiry is at or before the current time.
C8_RefreshExactlyWhenExpired ==
    [][(now' = now /\ last'.op = "sync")
       => IF creds = {}
          THEN last'.outcome = "not_connected" /\ ~ last'.refreshed
          ELSE \E tok \in creds :
                  last'.refreshed <=> (tok.expires_at <= now)]_vars

\* C9: a rejected refresh leaves the credential rows as they were; a
\* successful one overwrites access token, refresh token and expiry of
\* one row with the values of the refresh response.
C9_RefreshFrame ==
    [][(now' = now /\ last'.op = "sync" /\ last'.refreshed)
       => IF last'.error = "AuthError"
          THEN creds' = creds
          ELSE \E old \in creds :
                  LET data == TokenData(old.athlete, now)
                  IN  creds' = (creds \ {old}) \cup
                         {[athlete |-> old.athlete,
                           access_token |-> data.access_token,
                           refresh_token |-> data.refresh_token,
                           expires_at |-> data.expires_at]}]_vars

\* C9 witness: the remote rejected a refresh and the row is still there.
C9_Witness ==
    /\ last.op = "sync" /\ last.refreshed /\ last.error = "AuthError"
    /\ creds # {}

\* C10: at most one credential row in total, never two for one athlete.
C10_AtMostOneCredential ==
    /\ Cardinality(creds) <= 1
    /\ \A r1, r2 \in creds : r1.athlete = r2.athlete => r1 = r2

\* C11: a successful code exchange for athlete A leaves exactly one
\* credential row for A, carrying the access token, refresh token and
\* expiry of the exchange: a new row when A had none, the overwritten row
\* otherwise.  An exchange the token endpoint rejects changes no row.
C11_ExchangeUpserts ==
    [][(now' = now /\ last'.op = "callback")
       => IF last'.outcome = "exchange_failed"
          THEN creds' = creds
          ELSE last'.outcome # "no_code" =>
               LET a == last'.athlete
                   data == TokenData(a, now)
                   had == \E r \in creds : r.athlete = a
               IN  /\ Cardinality({r \in creds' : r.athlete = a}) = 1
                   /\ \A r \in creds' : r.athlete = a =>
                         /\ r.access_token = data.access_token
                         /\ r.refresh_token = data.refresh_token
                         /\ r.expires_at = data.expires_at
                   /\ Cardinality(creds') =
                         IF had THEN Cardinality(creds)
                         ELSE Cardinality(creds) + 1]_vars

\* C11 witness: a later exchange for an athlete, with a second athlete's
\* older row beside it.
C11_Witness ==
    /\ last.op = "callback" /\ last.outcome = "ok" /\ now = MaxTime
    /\ \E r \in creds :
          r.athlete = last.athlete /\ r.expires_at = now + TokenLife
    /\ \E r \in creds : r.athlete # last.athlete /\ r.expires_at <= now

\* C12: disconnect deletes every credential row, so is_strava_connected
\* is false after it; it raises nothing, also with no row stored, and a
\* second disconnect leaves the state of the first.
C12_DisconnectIdempotent ==
    [][(now' = now /\ last'.op = "disconnect")
       => (/\ creds' = {}
           /\ ~ IsStravaConnected(creds')
           /\ last'.outcome = "ok"
           /\ DisconnectStrava(creds') = creds'
           /\ DisconnectStrava(DisconnectStrava(creds)) = creds')]_vars

\* C12 witness: a disconnect after a connection that imported Runs.
C12_Witness ==
    /\ last.op = "disconnect" /\ last.outcome = "ok"
    /\ creds = {} /\ runs # {}

----------------------------------------------------------------------------
(* SpecConc: two request workers.  A worker's sync_activities_to_db call   *)
(* is a sequence of database round trips: one per loop iteration (the      *)
(* query autoflushes the session, then reads) and one for the commit.      *)
(* The session's INSERTs sit in its open transaction until the commit;     *)
(* the UNIQUE constraint is checked against the committed rows at each     *)
(* flush and at the commit.  The other handlers are single round trips.    *)

Dates == {1}
LogDistances == {0, 500}
EditDistances == {-100, 500}
Inputs == Seqs(RunIds, MaxBatch)

InitConc ==
    /\ runs = {}
    /\ creds = {TokenData(1, 0)}
    /\ now = 0
    /\ tz = 0
    /\ last = Result("init", "none", "none")
    /\ pc = Idle
    /\ acts = NoActs
    /\ idx = [p \in Procs |-> 0]
    /\ pending = NoActs
    /\ plan = {}
    /\ today = 0
    /\ authed = TRUE
    /\ lastSync = {}
    /\ cliRuns = {}

\* The teardown Flask-SQLAlchemy registers on the app context: the
\* request's session is removed, its open transaction rolled back.
Teardown(p) ==
    /\ pc' = [pc EXCEPT ![p] = "idle"]
    /\ acts' = [acts EXCEPT ![p] = <<>>]
    /\ idx' = [idx EXCEPT ![p] = 0]
    /\ pending' = [pending EXCEPT ![p] = <<>>]

\* The model's cap on primary keys: may `n` more rows be inserted?
RoomFor(n) == MaxOf({r.id : r \in runs}) + n <= MaxRunId

\* sync_from_strava up to the call of sync_activities_to_db(input).
StartSync(p, input) ==
    /\ pc[p] = "idle"
    /\ \E first \in FirstToken(creds) :
          LET got == GetValidToken(creds, first, now, tz, {})
          IN  IF got.raised \/ got.token = {}
              THEN /\ last' = IF got.raised
                              THEN Result("sync", "raised", "AuthError")
                              ELSE Result("sync", "not_connected", "none")
                   /\ UNCHANGED <<pc, acts, idx, pending>>
              ELSE /\ pc' = [pc EXCEPT ![p] =
                                IF input = <<>> THEN "commit" ELSE "loop"]
                   /\ acts' = [acts EXCEPT ![p] = input]
                   /\ idx' = [idx EXCEPT ![p] = 1]
                   /\ pending' = [pending EXCEPT ![p] = <<>>]
                   /\ UNCHANGED last
    /\ UNCHANGED <<runs, creds, now, tz, appVars>>

\* Mutant of LoopStep: every added Run is committed at once.
LoopStepCommitsEach(p) ==
    /\ pc[p] = "loop"
    /\ RoomFor(1)
    /\ IF ~ UniqueOK(runs, pending[p])
       THEN /\ last' = Result("sync", "raised", "IntegrityError")
            /\ Teardown(p)
            /\ UNCHANGED runs
       ELSE /\ runs' = InsertRows(runs,
                          ImportOne(runs, pending[p], acts[p][idx[p]]))
            /\ pending' = pending
            /\ idx' = [idx EXCEPT ![p] = @ + 1]
            /\ pc' = [pc EXCEPT ![p] =
                         IF idx[p] = Len(acts[p]) THEN "commit" ELSE "loop"]
            /\ UNCHANGED <<acts, last>>
    /\ UNCHANGED <<creds, now, tz, appVars>>

\* One loop iteration: autoflush, query, skip or add.
LoopStep(p) ==
    /\ pc[p] = "loop"
    /\ IF ~ UniqueOK(runs, pending[p])
       THEN /\ last' = Result("sync", "raised", "IntegrityError")
            /\ Teardown(p)
       ELSE /\ pending' = [pending EXCEPT ![p] =
                              ImportOne(runs, pending[p], acts[p][idx[p]])]
            /\ idx' = [idx EXCEPT ![p] = @ + 1]
            /\ pc' = [pc EXCEPT ![p] =
                         IF idx[p] = Len(acts[p]) THEN "commit" ELSE "loop"]
            /\ UNCHANGED <<acts, last>>
    /\ UNCHANGED <<runs, creds, now, tz, appVars>>

\* Mutant of CommitStep: the rows are committed without the UNIQUE
\* constraint being enforced.
CommitStepUnchecked(p) ==
    /\ pc[p] = "commit"
    /\ RoomFor(Len(pending[p]))
    /\ runs' = InsertRows(runs, pending[p])
    /\ last' = [Result("sync", "ok", "none") EXCEPT
                   !.synced = Len(pending[p]),
                   !.skipped = Len(acts[p]) - Len(pending[p])]
    /\ Teardown(p)
    /\ UNCHANGED <<creds, now, tz, appVars>>

\* db.session.commit() and the return of (synced, skipped).
CommitStep(p) ==
    /\ pc[p] = "commit"
    /\ RoomFor(Len(pending[p]))
    /\ IF ~ UniqueOK(runs, pending[p])
       THEN /\ last' = Result("sync", "raised", "IntegrityError")
            /\ UNCHANGED runs
       ELSE /\ runs' = InsertRows(runs, pending[p])
            /\ last' = [Result("sync", "ok", "none") EXCEPT !.synced = Len(pending[p]),
                           !.skipped = Len(acts[p]) - Len(pending[p])]
    /\ Teardown(p)
    /\ UNCHANGED <<creds, now, tz, appVars>>

\* The database fails the round trip the worker is at.
StoreFail(p) ==
    /\ pc[p] \in {"loop", "commit"}
    /\ last' = [Result("sync", "raised", "StoreError") EXCEPT
                   !.synced = Len(pending[p])]
    /\ Teardown(p)
    /\ UNCHANGED <<runs, creds, now, tz, appVars>>

\* routes/runs.py log, POST.
ManualRun(d, km) ==
    [date |-> d, distance |-> km, duration |-> {}, pace |-> {},
     strava_activity_id |-> NoId, source |-> "manual"]

\* Run.query.filter_by(date=d).first(): the rows it may return (no ORDER
\* BY: any Run of the date).
FirstRunOn(rs, d) == {r \in rs : r.date = d}

\* Mutant of Log: the upper limit of 100 km is not checked.
LogNoUpperLimit(d, km) ==
    /\ IF km <= 0
       THEN /\ last' = Result("log", "rejected", "ValidationError")
            /\ UNCHANGED runs
       ELSE /\ last' = Result("log", "ok", "none")
            /\ IF \E r \in runs : r.date = d
               THEN \E r \in {x \in runs : x.date = d} :
                       runs' = (runs \ {r}) \cup {[r EXCEPT !.distance = km]}
               ELSE /\ RoomFor(1)
                    /\ runs' = InsertRows(runs, <<ManualRun(d, km)>>)
    /\ UNCHANGED <<creds, now, tz, pc, acts, idx, pending, appVars>>

Log(d, km) ==
    /\ IF km <= 0 \/ km > 10000
       THEN /\ last' = Result("log", "rejected", "ValidationError")
            /\ UNCHANGED runs
       ELSE /\ last' = Result("log", "ok", "none")
            /\ IF \E r \in runs : r.date = d
               THEN \E r \in {x \in runs : x.date = d} :
                       runs' = (runs \ {r}) \cup {[r EXCEPT !.distance = km]}
               ELSE /\ RoomFor(1)
                    /\ runs' = InsertRows(runs, <<ManualRun(d, km)>>)
    /\ UNCHANGED <<creds, now, tz, pc, acts, idx, pending, appVars>>

\* routes/runs.py edit_run, POST with a distance.
EditRun(r, km) ==
    /\ r \in runs
    /\ IF km < 0
       THEN /\ last' = Result("edit", "rejected", "ValidationError")
            /\ UNCHANGED runs
       ELSE /\ last' = Result("edit", "ok", "none")
            /\ runs' = (runs \ {r}) \cup {[r EXCEPT !.distance = km]}
    /\ UNCHANGED <<creds, now, tz, pc, acts, idx, pending, appVars>>

\* routes/runs.py edit_run, POST with action=delete.
DeleteRun(r) ==
    /\ r \in runs
    /\ runs' = runs \ {r}
    /\ last' = Result("delete", "ok", "none")
    /\ UNCHANGED <<creds, now, tz, pc, acts, idx, pending, appVars>>

NextConc ==
    \/ \E p \in Procs, input \in Inputs : StartSync(p, input)
    \/ \E p \in Procs : LoopStep(p)
    \/ \E p \in Procs : CommitStep(p)
    \/ \E p \in Procs : StoreFail(p)
    \/ \E d \in Dates, km \in LogDistances : Log(d, km)
    \/ \E r \in runs, km \in EditDistances : EditRun(r, km)
    \/ \E r \in runs : DeleteRun(r)
    \/ Disconnect

SpecConc == InitConc /\ [][NextConc]_vars

----------------------------------------------------------------------------
(* Properties of SpecConc.                                                 *)

SyncedRuns(store) == {r \in store : r.strava_activity_id # NoId}

\* C2: no two Runs of the store carry the same external activity id.
C2_UniqueExternalId ==
    \A r1, r2 \in runs :
        (/\ r1.strava_activity_id # NoId
         /\ r1.strava_activity_id = r2.strava_activity_id) => r1 = r2

\* C2 witness: two imported Runs and a manual one, after a failed import.
C2_Witness ==
    /\ Cardinality(SyncedRuns(runs)) = 2
    /\ \E r \in runs : r.source = "manual"
    /\ last.outcome = "raised"

\* Worker p ended its import in this step.
EndsImport(p) == pc[p] \in {"loop", "commit"} /\ pc'[p] = "idle"

\* C3: an import is applied as a unit.  Its loop changes no committed
\* row; the step that ends it in an error leaves the store as it was;
\* the step that ends it in success adds exactly one row per pending Run;
\* and a worker that is idle holds no uncommitted Run.
C3_ImportIsAtomic ==
    [][\A p \in Procs :
        /\ (pc[p] = "loop" /\ pc'[p] # "idle" /\ idx'[p] # idx[p])
              => runs' = runs
        /\ (EndsImport(p) /\ last'.outcome = "raised") => runs' = runs
        /\ (EndsImport(p) /\ last'.outcome = "ok")
              => /\ runs \subseteq runs'
                 /\ Cardinality(runs') = Cardinality(runs) + Len(pending[p])
                 /\ \A i \in 1..Len(pending[p]) :
                       \E r \in runs' \ runs :
                          r.strava_activity_id =
                             pending[p][i].strava_activity_id
        /\ pc'[p] = "idle" => pending'[p] = <<>>]_vars

\* C3 witness: an import failed with a Run pending and nothing was stored.
C3_Witness ==
    /\ last.op = "sync" /\ last.error = "StoreError" /\ last.synced >= 1
    /\ runs = {}
    /\ \A p \in Procs : pc[p] = "idle" /\ pending[p] = <<>>

\* Worker p holds an uncommitted Run whose external id another request
\* has committed meanwhile.
LostRace(p) ==
    \E i \in 1..Len(pending[p]) :
        \E r \in runs :
            r.strava_activity_id = pending[p][i].strava_activity_id

\* C4: a sync that lost the race for an external id has its insert
\* rejected by the store: it ends in an error, the store keeps its rows,
\* and no external id is stored twice.
C4_ConcurrentDuplicateRejected ==
    [][\A p \in Procs :
        (EndsImport(p) /\ LostRace(p))
           => (/\ last'.outcome = "raised"
               /\ runs' = runs
               /\ Cardinality(SyncedRuns(runs')) =
                     Cardinality({r.strava_activity_id :
                                     r \in SyncedRuns(runs')}))]_vars

\* C4 witness: the constraint rejected a sync's insert.
C4_Witness ==
    /\ last.op = "sync" /\ last.error = "IntegrityError"
    /\ SyncedRuns(runs) # {}

----------------------------------------------------------------------------
(* The pages of the web application: routes/auth.py, routes/main.py,       *)
(* routes/runs.py, routes/dashboard.py.                                    *)

MaxDay == 2           \* the dates of the log form run over 1..MaxDay

\* date.weekday(): Monday = 0.  Day 0 is a Monday.
Weekday(d) == d % 7

\* today - timedelta(days=today.weekday())
MondayOf(d) == d - Weekday(d)

RECURSIVE SumOver(_, _)
\* sum(f[x] for x in S)
SumOver(S, f) ==
    IF S = {} THEN 0
    ELSE LET x == CHOOSE y \in S : TRUE
         IN  f[x] + SumOver(S \ {x}, f)

\* sum(float(r.distance) for r in rows)
TotalDistance(rows) == SumOver(rows, [r \in rows |-> r.distance])

\* sum(float(t.target_distance) for t in entries)
TotalTarget(entries) == SumOver(entries, [e \in entries |-> e.target])

\* routes/main.py get_week_summary.  progress_percent is the set of the
\* one number the code reports, as a fraction; {} would be no number.
GetWeekSummary(rs, pl, td) ==
    LET monday == MondayOf(td)
        sunday == monday + 6
        inWeek(d) == d >= monday /\ d <= sunday
        total_run == TotalDistance({r \in rs : inWeek(r.date)})
        total_target == TotalTarget({e \in pl : inWeek(e.date)})
    IN  [start |-> monday, end |-> sunday,
         total_run |-> total_run, total_target |-> total_target,
         progress_percent |->
            IF total_target > 0
            THEN {[num |-> total_run * 100, den |-> total_target]}
            ELSE {[num |-> 0, den |-> 1]}]

\* round(x, 1) of a float that is a whole number of hundredths, in tenths.
\* Exact for the multiples of 0.1 km the model stores.
RoundTenths(x) == RoundHalfEven(x, 10)

\* {r.date: float(r.distance) for r in runs}: a later Run of a date
\* replaces an earlier one.  The query orders by date only, so any Run of
\* a date may come last: the set of the dicts the comprehension can build.
RunsByDate(rs) ==
    LET days == {r.date : r \in rs}
    IN  {f \in [days -> {r.distance : r \in rs}] :
            \A d \in days : \E r \in rs : r.date = d /\ r.distance = f[d]}

\* routes/dashboard.py chart_data for one dict runs_by_date: the points,
\* as a function from the dates of the series to (actual, target), both in
\* tenths of a kilometre.
ChartSeries(byDate, pl, td) ==
    LET planDays == {e.date : e \in pl}
        dates == {d \in (DOMAIN byDate) \cup planDays : d <= td}
        actual(d) == SumOver({x \in DOMAIN byDate : x <= d}, byDate)
        target(d) == TotalTarget({e \in pl : e.date <= d})
    IN  [d \in dates |->
            [actual |-> RoundTenths(actual(d)),
             target |-> RoundTenths(target(d))]]

\* The responses chart_data can give for a store.
ChartData(rs, pl, td) == {ChartSeries(f, pl, td) : f \in RunsByDate(rs)}

----------------------------------------------------------------------------
(* Form fields.  A distance field is a string; Float is float() on it, in  *)
(* hundredths: {} stands for ValueError.  A date field is an ISO date or   *)
(* some other string; DateFromIso is date.fromisoformat.                   *)

Float(field) ==
    CASE field = "-1.0" -> {-100}
      [] field = "0" -> {0}
      [] field = "7.5" -> {750}
      [] field = "100" -> {10000}
      [] field = "100.1" -> {10010}
      [] OTHER -> {}

LogFields == {"abc", "-1.0", "0", "100", "100.1"}
EditFields == {"abc", "-1.0", "0", "7.5"}

IsoFormat(d) == <<"iso", d>>

FormDates == {IsoFormat(d) : d \in 1..MaxDay} \cup {<<"not-a-date">>}

DateFromIso(field) == IF field[1] = "iso" THEN {field[2]} ELSE {}

\* What a page request leaves in `last`: the session it came from, the
\* result of the sync it ran (if any) and what it computed.
PageResult(op, outcome, session) ==
    [op |-> op, outcome |-> outcome, session |-> session,
     sync |-> Result("none", "none", "none"), view |-> <<>>]

\* login_required answering a request of a session that is not
\* authenticated: a redirect to auth.login; the handler does not run.
RedirectToLogin(op) ==
    /\ last' = PageResult(op, "redirect_login", authed)
    /\ UNCHANGED <<runs, creds, now, tz, pc, acts, idx, pending, appVars>>

\* @login_required around a handler.
LoginRequired(op, handler) ==
    IF ~ authed THEN RedirectToLogin(op) ELSE handler

----------------------------------------------------------------------------
(* SpecWeb: one browser session against a connected account.  Every page   *)
(* request is one atomic step.                                             *)

\* auto_sync_if_needed(minutes=1) of routes/main.py home.
Cooldown == 1

Passwords == {"right", "wrong"}

\* check_password_hash(PASSWORD_HASH, password)
CheckPasswordHash(pw) == pw = "right"

\* The training plans import_plan.py may have loaded.
Plans == {{}, {[date |-> 1, target |-> 500], [date |-> 2, target |-> 0]}}

\* Mutant of AutoSyncIfNeeded: the cooldown test is left out.
AutoSyncIfNeededNoCooldown(cool, cr, rs, ls, first, t, z, resp, listing, fetchFail, storeFail) ==
    IF ~ IsStravaConnected(cr)
    THEN [creds |-> cr, runs |-> rs, lastSync |-> ls,
          result |-> Result("auto_sync", "not_connected", "none")]
    ELSE LET s == SyncFromStrava("auto_sync", cr, rs, first, t, z, resp,
                                 listing, fetchFail, storeFail)
         IN  [creds |-> s.creds, runs |-> s.runs,
              lastSync |-> IF s.result.outcome = "raised" THEN ls ELSE {t},
              result |-> s.result]

\* services/strava.py auto_sync_if_needed: nothing without a credential,
\* nothing within `cool` of the recorded last sync; otherwise
\* sync_from_strava, and the instant is recorded.
AutoSyncIfNeeded(cool, cr, rs, ls, first, t, z, resp, listing, fetchFail, storeFail) ==
    IF ~ IsStravaConnected(cr)
    THEN [creds |-> cr, runs |-> rs, lastSync |-> ls,
          result |-> Result("auto_sync", "not_connected", "none")]
    ELSE IF \E x \in ls : t - x < cool
    THEN [creds |-> cr, runs |-> rs, lastSync |-> ls,
          result |-> Result("auto_sync", "cooldown", "none")]
    ELSE LET s == SyncFromStrava("auto_sync", cr, rs, first, t, z, resp,
                                 listing, fetchFail, storeFail)
         IN  [creds |-> s.creds, runs |-> s.runs,
              lastSync |-> IF s.result.outcome = "raised" THEN ls ELSE {t},
              result |-> s.result]

InitWeb ==
    /\ runs = {}
    /\ creds = {TokenData(1, 0)}
    /\ now = 0
    /\ tz = 0
    /\ last = PageResult("init", "none", FALSE)
    /\ pc = Idle
    /\ acts = NoActs
    /\ idx = [p \in Procs |-> 0]
    /\ pending = NoActs
    /\ plan \in Plans
    /\ today = 1
    /\ authed = FALSE
    /\ lastSync = {}
    /\ cliRuns = {}

\* routes/auth.py login, POST: a wrong password changes nothing; the right
\* one authenticates the session and runs _auto_sync_strava, which
\* swallows every exception.
LoginWith(pw, first, resp, listing, fetchFail, storeFail) ==
    IF ~ CheckPasswordHash(pw)
    THEN /\ last' = PageResult("login", "denied", authed)
         /\ UNCHANGED <<runs, creds, now, tz, pc, acts, idx, pending,
                        appVars>>
    ELSE LET s == IF IsStravaConnected(creds)
                  THEN SyncFromStrava("login", creds, runs, first, now, tz,
                                      resp, listing, fetchFail, storeFail)
                  ELSE [creds |-> creds, runs |-> runs,
                        result |-> Result("none", "none", "none")]
         IN  /\ authed' = TRUE
             /\ creds' = s.creds
             /\ runs' = s.runs
             /\ last' = [PageResult("login", "ok", TRUE) EXCEPT
                            !.sync = s.result]
             /\ UNCHANGED <<now, tz, pc, acts, idx, pending, plan, today,
                            lastSync, cliRuns>>

Login ==
    \E pw \in Passwords :
    \E first \in FirstToken(creds) :
    \E resp \in RefreshChoices(first, now, tz) :
    \E listing \in ListingChoices(creds, first, now, tz, resp) :
    \E fetchFail \in FetchFailChoices(creds, first, now, tz, resp, listing) :
    \E storeFail \in StoreFailChoices(creds, first, now, tz, resp, listing,
                                      fetchFail) :
        LoginWith(pw, first, resp, listing, fetchFail, storeFail)

\* routes/auth.py logout.
Logout ==
    /\ authed' = FALSE
    /\ last' = PageResult("logout", "ok", FALSE)
    /\ UNCHANGED <<runs, creds, now, tz, pc, acts, idx, pending, plan,
                   today, lastSync, cliRuns>>

\* routes/main.py home behind login_required: the automatic sync, then
\* the week's summary.
HomeWith(first, resp, listing, fetchFail, storeFail) ==
    LET a == AutoSyncIfNeeded(Cooldown, creds, runs, lastSync, first, now,
                              tz, resp, listing, fetchFail, storeFail)
        raised == a.result.outcome = "raised"
    IN  /\ creds' = a.creds
        /\ runs' = a.runs
        /\ lastSync' = a.lastSync
        /\ last' = [PageResult("home",
                               IF raised THEN "error" ELSE "handled",
                               authed) EXCEPT
                       !.sync = a.result,
                       !.view = IF raised THEN <<>>
                                ELSE GetWeekSummary(a.runs, plan, today)]
        /\ UNCHANGED <<now, tz, pc, acts, idx, pending, plan, today,
                       authed, cliRuns>>

Home ==
    LoginRequired("home",
        \E first \in FirstToken(creds) :
        \E resp \in RefreshChoices(first, now, tz) :
        \E listing \in ListingChoices(creds, first, now, tz, resp) :
        \E fetchFail \in FetchFailChoices(creds, first, now, tz, resp,
                                          listing) :
        \E storeFail \in StoreFailChoices(creds, first, now, tz, resp,
                                          listing, fetchFail) :
            HomeWith(first, resp, listing, fetchFail, storeFail))

\* routes/main.py plan: the route carries no login_required.
PlanPage ==
    /\ last' = PageResult("plan", "handled", authed)
    /\ UNCHANGED <<runs, creds, now, tz, pc, acts, idx, pending, appVars>>

\* routes/runs.py log, GET.
LogForm ==
    LoginRequired("log_form",
        /\ last' = PageResult("log_form", "handled", authed)
        /\ UNCHANGED <<runs, creds, now, tz, pc, acts, idx, pending,
                       appVars>>)

\* routes/dashboard.py chart_data, a public route.
ChartPage ==
    /\ \E series \in ChartData(runs, plan, today) :
          last' = [PageResult("chart", "handled", authed) EXCEPT
                      !.view = series]
    /\ UNCHANGED <<runs, creds, now, tz, pc, acts, idx, pending, appVars>>

\* routes/runs.py log, POST with the form fields as submitted.
LogPost(distance, date) ==
    LoginRequired("log",
        IF Float(distance) = {} \/ DateFromIso(date) = {}
        THEN /\ last' = Result("log", "rejected", "ValueError")
             /\ UNCHANGED <<runs, creds, now, tz, pc, acts, idx, pending,
                            appVars>>
        ELSE \E km \in Float(distance), d \in DateFromIso(date) : Log(d, km))

\* routes/runs.py edit_run, POST with the distance field as submitted.
EditPost(r, distance) ==
    LoginRequired("edit",
        IF Float(distance) = {}
        THEN /\ r \in runs
             /\ last' = Result("edit", "rejected", "ValueError")
             /\ UNCHANGED <<runs, creds, now, tz, pc, acts, idx, pending,
                            appVars>>
        ELSE \E km \in Float(distance) : EditRun(r, km))

\* routes/runs.py edit_run, POST with action=delete.
DeletePost(r) == LoginRequired("delete", DeleteRun(r))

\* routes/strava.py sync behind login_required, with the remote and the
\* database answering without a failure.
DisconnectPost == LoginRequired("disconnect", Disconnect)

SyncPost ==
    LoginRequired("sync",
        \E first \in FirstToken(creds), listing \in Listings :
            /\ RoomFor(Len(listing))
            /\ SyncWith(first, {}, listing, 0, 0))

NextWeb ==
    \/ Tick
    \/ Login
    \/ Logout
    \/ Home
    \/ PlanPage
    \/ LogForm

SpecWeb == InitWeb /\ [][NextWeb]_vars

----------------------------------------------------------------------------
(* SpecLog: the manual log, the imports and the summaries of one day, in   *)
(* a session that has logged in.  The account is connected and the         *)
(* automatic sync of the home view has just run (instant 0), so the home   *)
(* view only computes its summary.                                         *)

InitLog ==
    /\ runs = {}
    /\ creds = {TokenData(1, 0)}
    /\ now = 0
    /\ tz = 0
    /\ last = PageResult("login", "ok", TRUE)
    /\ pc = Idle
    /\ acts = NoActs
    /\ idx = [p \in Procs |-> 0]
    /\ pending = NoActs
    /\ plan \in Plans
    /\ today = 1
    /\ authed = TRUE
    /\ lastSync = {0}
    /\ cliRuns = {}

NextLog ==
    \/ Home
    \/ ChartPage
    \/ SyncPost
    \/ \E distance \in LogFields, date \in FormDates : LogPost(distance, date)
    \/ \E r \in runs, distance \in EditFields : EditPost(r, distance)
    \/ \E r \in runs : DeletePost(r)
    \/ DisconnectPost

SpecLog == InitLog /\ [][NextLog]_vars

----------------------------------------------------------------------------
(* Properties of SpecWeb.                                                  *)

\* C13: the automatic sync of the home view records the instant at which
\* it syncs, and a home request within the cooldown of the recorded
\* instant issues no request to the remote and imports nothing.
C13_AutoSyncCooldown ==
    [][(now' = now /\ last'.op = "home" /\ last'.outcome # "redirect_login")
       => (/\ last'.sync.outcome = "ok" => lastSync' = {now}
           /\ (\E x \in lastSync : now - x < Cooldown)
                 => (/\ last'.sync.outcome = "cooldown"
                     /\ last'.sync.requests = 0
                     /\ last'.sync.synced = 0
                     /\ runs' = runs
                     /\ creds' = creds
                     /\ lastSync' = lastSync))]_vars

\* C13 witness: a home request fell into the cooldown of a sync that had
\* imported Runs.
C13_Witness ==
    /\ last.op = "home" /\ last.outcome = "handled"
    /\ last.sync.outcome = "cooldown"
    /\ lastSync = {now} /\ runs # {}

----------------------------------------------------------------------------
(* Properties of SpecLog.                                                  *)

\* C14: every manually entered Run of the store has a distance above 0.
C14_ManualDistancePositive ==
    \A r \in runs : r.source = "manual" => r.distance > 0

\* The fields of a log submission that the handler must reject.
BadLogFields(distance, date) ==
    \/ Float(distance) = {}
    \/ DateFromIso(date) = {}
    \/ \E km \in Float(distance) : km <= 0 \/ km > 10000

\* C15: a log submission with a negative or zero distance, a distance
\* above 100 km, or a date or distance that does not parse is answered
\* with an error message and leaves the Run store as it was.
C15_BadLogRejected ==
    [][\A distance \in LogFields, date \in FormDates :
          (authed /\ BadLogFields(distance, date) /\ LogPost(distance, date))
             => (/\ last'.op = "log"
                 /\ last'.outcome = "rejected"
                 /\ last'.error \in {"ValidationError", "ValueError"}
                 /\ runs' = runs)]_vars

\* C15 witness: a submission was rejected by the range check with Runs in
\* the store.
C15_Witness ==
    /\ last.op = "log" /\ last.outcome = "rejected"
    /\ last.error = "ValidationError" /\ runs # {}

\* C16: logging a valid distance for a date that has a Run adds no Run
\* (the Runs of the date keep their number) and a later read for the date
\* returns the new distance.
C16_LogUpdatesExisting ==
    [][\A distance \in LogFields, date \in FormDates :
          (/\ authed /\ ~ BadLogFields(distance, date)
           /\ \E d \in DateFromIso(date) : FirstRunOn(runs, d) # {}
           /\ LogPost(distance, date))
             => \A km \in Float(distance), d \in DateFromIso(date) :
                   /\ Cardinality(FirstRunOn(runs', d)) =
                         Cardinality(FirstRunOn(runs, d))
                   /\ Cardinality(runs') = Cardinality(runs)
                   /\ \A r \in FirstRunOn(runs', d) : r.distance = km]_vars

\* The pages behind the login.
ProtectedPages == {"home", "plan", "log_form"}

\* C17: a request for /, /plan or /log is answered with a redirect to the
\* login page exactly when its session is not authenticated.
C17_ProtectedPagesNeedLogin ==
    last.op \in ProtectedPages
       => (last.outcome = "redirect_login" <=> ~ last.session)

\* C18: the chart series has one point per date, up to today, that bears a
\* Run or a plan entry; its cumulative actual is the sum of the distances
\* of all Runs up to that date and its cumulative target the sum of all
\* plan targets up to it.
C18_ChartIsCumulativeSum ==
    last.op = "chart"
       => /\ DOMAIN last.view =
                {d \in {r.date : r \in runs} \cup {e.date : e \in plan} :
                    d <= today}
          /\ \A d \in DOMAIN last.view :
                /\ last.view[d].actual * 10 =
                      TotalDistance({r \in runs : r.date <= d})
                /\ last.view[d].target * 10 =
                      TotalTarget({e \in plan : e.date <= d})

\* C19: the weekly summary sums the Runs and the plan targets of the
\* Monday-to-Sunday week of today; with a target sum of 0 it reports no
\* percentage, otherwise actual / target * 100.
C19_WeekSummaryNoTarget ==
    (last.op = "home" /\ last.outcome = "handled")
       => LET w == last.view
              inWeek(d) == MondayOf(d) = MondayOf(today)
              actual == TotalDistance({r \in runs : inWeek(r.date)})
              target == TotalTarget({e \in plan : inWeek(e.date)})
          IN  /\ w.start = today - Weekday(today)
              /\ w.total_run = actual
              /\ w.total_target = target
              /\ w.progress_percent =
                    IF target = 0 THEN {}
                    ELSE {[num |-> actual * 100, den |-> target]}

----------------------------------------------------------------------------
(* SpecCli: the command-line log (running_log/main.py) and the first web   *)
(* application (web/app.py) over the table of running_log/db.py, whose     *)
(* date column is UNIQUE: cliRuns holds at most one row per date.          *)

CliFields == {"", "abc", "-1.0", "0", "7.5"}

\* ui.prompt_float: None ({}) for an empty or malformed answer.
PromptFloat(field) == Float(field)

\* db.log_run: INSERT ... ON CONFLICT(date) DO UPDATE.
DbLogRun(store, d, km) ==
    {r \in store : r.date # d} \cup {[date |-> d, distance_km |-> km]}

\* db.get_run: the distance logged for the date, or None ({}).
GetRun(store, d) == {r.distance_km : r \in {x \in store : x.date = d}}

\* `if db.get_run(check_date)`: None and 0.0 are both false.
Truthy(value) == \E x \in value : x # 0

RECURSIVE Streak(_, _)
\* The streak loop of stats in web/app.py, from check_date = d backwards.
Streak(store, d) ==
    IF store # {} /\ Truthy(GetRun(store, d))
    THEN 1 + Streak(store, d - 1)
    ELSE 0

InitCli ==
    /\ runs = {}
    /\ creds = {}
    /\ now = 0
    /\ tz = 0
    /\ last = [op |-> "init", outcome |-> "none", today |-> 1, streak |-> 0]
    /\ pc = Idle
    /\ acts = NoActs
    /\ idx = [p \in Procs |-> 0]
    /\ pending = NoActs
    /\ plan = {}
    /\ today = 1
    /\ authed = FALSE
    /\ lastSync = {}
    /\ cliRuns = {}

\* Midnight passes.
NextDay ==
    /\ today < MaxDay
    /\ today' = today + 1
    /\ UNCHANGED <<runs, creds, now, tz, last, pc, acts, idx, pending,
                   plan, authed, lastSync, cliRuns>>

\* running_log/main.py log_run: the run of today, as answered at the
\* prompt.
CliLogRun(field) ==
    /\ IF PromptFloat(field) = {} \/ \E km \in PromptFloat(field) : km < 0
       THEN /\ last' = [op |-> "cli_log", outcome |-> "rejected",
                        today |-> today, streak |-> 0]
            /\ UNCHANGED cliRuns
       ELSE /\ \E km \in PromptFloat(field) :
                  cliRuns' = DbLogRun(cliRuns, today, km)
            /\ last' = [op |-> "cli_log", outcome |-> "ok",
                        today |-> today, streak |-> 0]
    /\ UNCHANGED <<runs, creds, now, tz, pc, acts, idx, pending, plan,
                   today, authed, lastSync>>

\* web/app.py log_submit.
LogSubmit(distance, date) ==
    /\ IF \/ Float(distance) = {} \/ DateFromIso(date) = {}
          \/ \E km \in Float(distance) : km <= 0 \/ km > 10000
       THEN /\ last' = [op |-> "log_submit", outcome |-> "rejected",
                        today |-> today, streak |-> 0]
            /\ UNCHANGED cliRuns
       ELSE /\ \E km \in Float(distance), d \in DateFromIso(date) :
                  cliRuns' = DbLogRun(cliRuns, d, km)
            /\ last' = [op |-> "log_submit", outcome |-> "ok",
                        today |-> today, streak |-> 0]
    /\ UNCHANGED <<runs, creds, now, tz, pc, acts, idx, pending, plan,
                   today, authed, lastSync>>

\* web/app.py stats: the streak it shows.
Stats ==
    /\ last' = [op |-> "stats", outcome |-> "handled", today |-> today,
                streak |-> Streak(cliRuns, today)]
    /\ UNCHANGED <<runs, creds, now, tz, pc, acts, idx, pending, appVars>>

NextCli ==
    \/ NextDay
    \/ \E field \in CliFields : CliLogRun(field)
    \/ \E distance \in LogFields, date \in FormDates :
          LogSubmit(distance, date)
    \/ Stats

SpecCli == InitCli /\ [][NextCli]_vars

RECURSIVE DaysInARow(_, _)
\* The number of consecutive days ending at d that each have a Run.
DaysInARow(store, d) ==
    IF \E r \in store : r.date = d
    THEN 1 + DaysInARow(store, d - 1)
    ELSE 0

\* C20: the streak is the number of consecutive calendar days ending
\* today on each of which a Run is logged: 0 when today has none.
C20_StreakCountsDays ==
    (last.op = "stats" /\ last.today = today)
       => last.streak = DaysInARow(cliRuns, today)

----------------------------------------------------------------------------
(* SpecPlan: the plan import.  import_plan.py loads a CSV file into table  *)
(* training_plan, running_log/plan.py loads it into plan.yaml.  A file is  *)
(* its header's columns and its rows as csv.DictReader yields them: the    *)
(* Date field, and the Target_km field, which is None ({}) in a row that   *)
(* ends before that column.                                                *)

MaxRows == 2              \* longest CSV file, in rows

PlanTargets == {"abc", "7.5", "100"}

CsvRows == [Date : FormDates, Target_km : {{}} \cup {{f} : f \in PlanTargets}]

CsvColumns == {{"Date", "Target_km"}, {"Date"}}

CsvFiles == [columns : CsvColumns, rows : Seqs(CsvRows, MaxRows)]

\* The try block of the loop over the reader: "ok", or the exception that
\* date.fromisoformat(row['Date']) or float(row['Target_km']) raises.
ReadRow(columns, row) ==
    IF "Date" \notin columns THEN "KeyError"
    ELSE IF DateFromIso(row.Date) = {} THEN "ValueError"
    ELSE IF "Target_km" \notin columns THEN "KeyError"
    ELSE IF row.Target_km = {} THEN "TypeError"
    ELSE IF \A f \in row.Target_km : Float(f) = {} THEN "ValueError"
    ELSE "ok"

\* plan_entries[plan_date] = target: the dict as a set of entries.
SetItem(entries, d, t) ==
    {e \in entries : e.date # d} \cup {[date |-> d, target |-> t]}

\* The loop over the reader from row k on: `except (KeyError, ValueError)`
\* skips the row, any other exception leaves the function.
RECURSIVE PlanEntries(_, _, _)
PlanEntries(csv, k, entries) ==
    IF k > Len(csv.rows) THEN [raised |-> FALSE, entries |-> entries]
    ELSE LET row == csv.rows[k]
             exc == ReadRow(csv.columns, row)
         IN  IF exc = "ok"
             THEN PlanEntries(csv, k + 1,
                     SetItem(entries,
                             CHOOSE d \in DateFromIso(row.Date) : TRUE,
                             CHOOSE t \in UNION {Float(f) : f \in row.Target_km} : TRUE))
             ELSE IF exc \in {"KeyError", "ValueError"}
             THEN PlanEntries(csv, k + 1, entries)
             ELSE [raised |-> TRUE, entries |-> entries]

\* What an import leaves in `last`.
ImportResult(op, outcome, csv, imported, written) ==
    [op |-> op, outcome |-> outcome, csv |-> csv, imported |-> imported,
     written |-> written]

\* import_plan.py import_training_plan: the table is cleared and that is
\* committed, the file is read, the entries are inserted and committed.
ImportTrainingPlan(csv) ==
    LET read == PlanEntries(csv, 1, {})
    IN  /\ plan' = IF read.raised THEN {} ELSE read.entries
        /\ last' = IF read.raised
                   THEN ImportResult("import_plan", "raised", csv, 0, {})
                   ELSE ImportResult("import_plan", "ok", csv,
                                     Cardinality(read.entries), {})
        /\ UNCHANGED <<runs, creds, now, tz, pc, acts, idx, pending,
                       today, authed, lastSync, cliRuns>>

\* running_log/plan.py import_from_csv: the schedule it writes to
\* plan.yaml ({}: it writes nothing) and the count it returns.
ImportFromCsv(csv) ==
    LET read == PlanEntries(csv, 1, {})
    IN  IF read.raised
        THEN ImportResult("import_from_csv", "raised", csv, 0, {})
        ELSE ImportResult("import_from_csv", "ok", csv,
                          Cardinality(read.entries), {read.entries})

\* running_log/main.py import_plan.
CliImportPlan(csv) ==
    /\ last' = ImportFromCsv(csv)
    /\ UNCHANGED <<runs, creds, now, tz, pc, acts, idx, pending, appVars>>

InitPlan ==
    /\ runs = {}
    /\ creds = {}
    /\ now = 0
    /\ tz = 0
    /\ last = ImportResult("init", "none", [columns |-> {}, rows |-> <<>>],
                           0, {})
    /\ pc = Idle
    /\ acts = NoActs
    /\ idx = [p \in Procs |-> 0]
    /\ pending = NoActs
    /\ plan \in Plans
    /\ today = 1
    /\ authed = FALSE
    /\ lastSync = {}
    /\ cliRuns = {}

NextPlan ==
    \/ \E csv \in CsvFiles : ImportTrainingPlan(csv)
    \/ \E csv \in CsvFiles : CliImportPlan(csv)

SpecPlan == InitPlan /\ [][NextPlan]_vars

\* Row k of the file has a date and a number in the two columns.
WellFormed(csv, k) ==
    /\ {"Date", "Target_km"} \subseteq csv.columns
    /\ DateFromIso(csv.rows[k].Date) # {}
    /\ \E f \in csv.rows[k].Target_km : Float(f) # {}

\* One entry per date of a well-formed row, with the target of the last
\* well-formed row of that date.
LastValueWins(csv) ==
    {[date |-> d, target |-> t] : <<d, t>> \in
        {<<d, t>> \in (1..MaxDay) \X {750, 10000} :
            \E k \in 1..Len(csv.rows) :
               /\ WellFormed(csv, k)
               /\ csv.rows[k].Date = IsoFormat(d)
               /\ \E f \in csv.rows[k].Target_km : Float(f) = {t}
               /\ \A j \in (k + 1)..Len(csv.rows) :
                     WellFormed(csv, j) => csv.rows[j].Date # IsoFormat(d)}}

\* C21: after a plan import the plan holds exactly one entry per distinct
\* date of the well-formed rows, with the target of the last such row;
\* malformed rows are skipped and do not abort the import; no two plan
\* entries ever share a date.
C21_PlanImportLastValueWins ==
    /\ \A e1, e2 \in plan : e1.date = e2.date => e1 = e2
    /\ last.op = "import_plan"
          => last.outcome = "ok" /\ plan = LastValueWins(last.csv)
    /\ last.op = "import_from_csv"
          => last.outcome = "ok" /\ last.written = {LastValueWins(last.csv)}

----------------------------------------------------------------------------
(* SpecConv: the functions of the import taken one at a time, each applied *)
(* to inputs drawn from bounded sets: the conversion of one activity       *)
(* (strava.py:118-145), the fetch (strava.py:72-105) and the duration      *)
(* text (models.py:32-42).  A text is the sequence of its characters.      *)

MaxMetres == 30           \* the short remote distances run over 0..MaxMetres
MaxDuration == 3800       \* durations run over 0..MaxDuration seconds

Metres == (0..MaxMetres) \cup {5000, 5005}

MovingTimes == {0, 1, 100, 1500, 1501}

Durations == {{}} \cup {{d} : d \in 0..MaxDuration}

Digit(n) == <<"0", "1", "2", "3", "4", "5", "6", "7", "8", "9">>[n + 1]

\* f"{n}": the decimal digits of n >= 0.
RECURSIVE Str(_)
Str(n) == IF n < 10 THEN <<Digit(n)>> ELSE Str(n \div 10) \o <<Digit(n % 10)>>

\* Mutant of Pad2: the field is not padded.
Pad2Unpadded(n) == Str(n)

\* f"{n:02d}".
Pad2(n) == IF n < 10 THEN <<"0">> \o Str(n) ELSE Str(n)

\* Run.duration_formatted; {} is None.
DurationFormatted(duration) ==
    IF duration = {} THEN {}
    ELSE LET d == CHOOSE x \in duration : TRUE
             hours == d \div 3600
             minutes == (d % 3600) \div 60
             seconds == d % 60
         IN  IF hours > 0
             THEN {Str(hours) \o <<":">> \o Pad2(minutes) \o <<":">>
                      \o Pad2(seconds)}
             ELSE {Str(minutes) \o <<":">> \o Pad2(seconds)}

\* The raw activity a listing entry of the given distance and time is.
RawActivity(metres, seconds) ==
    [id |-> 1, type |-> "Run", distance |-> metres, moving_time |-> seconds,
     start_date_local |-> 1]

InitConv ==
    /\ runs = {}
    /\ creds = {}
    /\ now = 0
    /\ tz = 0
    /\ last = [op |-> "init"]
    /\ pc = Idle
    /\ acts = NoActs
    /\ idx = [p \in Procs |-> 0]
    /\ pending = NoActs
    /\ plan = {}
    /\ today = 1
    /\ authed = FALSE
    /\ lastSync = {}
    /\ cliRuns = {}

\* The body of the loop of sync_activities_to_db for one new activity.
Convert(metres, seconds) ==
    /\ last' = [op |-> "convert", activity |-> RawActivity(metres, seconds),
                run |-> ConvertActivity(RawActivity(metres, seconds))]
    /\ UNCHANGED <<runs, creds, now, tz, pc, acts, idx, pending, appVars>>

\* fetch_recent_activities against a remote holding `listing`.
Fetch(listing, failAt) ==
    /\ last' = [op |-> "fetch", listing |-> listing, failAt |-> failAt,
                fetched |-> FetchRecentActivities(listing, failAt)]
    /\ UNCHANGED <<runs, creds, now, tz, pc, acts, idx, pending, appVars>>

\* A page shows run.duration_formatted.
ShowDuration(duration) ==
    /\ last' = [op |-> "duration_formatted", duration |-> duration,
                text |-> DurationFormatted(duration)]
    /\ UNCHANGED <<runs, creds, now, tz, pc, acts, idx, pending, appVars>>

NextConv ==
    \/ \E metres \in Metres, seconds \in MovingTimes : Convert(metres, seconds)
    \/ \E listing \in Listings, failAt \in 0..(MaxListing \div PerPage + 1) :
          Fetch(listing, failAt)
    \/ \E duration \in Durations : ShowDuration(duration)

SpecConv == InitConv /\ [][NextConv]_vars

\* n / d rounded to an integer, ties away from zero (n >= 0, d > 0).
RoundHalfUp(n, d) == (2 * n + d) \div (2 * d)

\* C22: the stored distance is the remote distance in metres divided by
\* 1000 and rounded to 2 decimal places with ties rounded half-up (5 m
\* gives 0.01, 25 m gives 0.03, 5000 m gives 5.00).
C22_DistanceRoundsHalfUp ==
    last.op = "convert"
       => last.run.distance = RoundHalfUp(last.activity.distance, 10)

\* C23: the pace is duration_seconds / 60 / distance_km rounded to 2
\* decimal places (the nearest hundredth) when the distance is nonzero,
\* and absent when the distance is zero: the conversion never divides by
\* zero.
C23_PaceRoundedOrAbsent ==
    last.op = "convert"
       => LET km == last.run.distance
              s == last.activity.moving_time
              off(p) == p * 60 * km - s * 10000
          IN  IF km = 0 THEN last.run.pace = {}
              ELSE \E p \in last.run.pace :
                      /\ last.run.pace = {p}
                      /\ 2 * off(p) <= 60 * km
                      /\ 2 * off(p) >= - (60 * km)

C23_Witness ==
    /\ last.op = "convert"
    /\ last.activity.moving_time = 1500
    /\ last.run.distance = 500
    /\ last.run.pace = {500}

\* The first page of the listing that has fewer results than a page holds.
FirstShortPage(listing) ==
    CHOOSE p \in 1..(Len(listing) + 1) :
       /\ Len(PageOf(listing, p)) < PerPage
       /\ \A q \in 1..(p - 1) : Len(PageOf(listing, q)) = PerPage

\* C25: a fetch requests pages 1, 2, ... in order up to and including the
\* first page with fewer results than the page size and none after it; it
\* returns exactly the activities of type Run of the pages it read, in
\* their order.
C25_FetchStopsAtShortPage ==
    (last.op = "fetch" /\ ~ last.fetched.raised)
       => /\ last.fetched.requests = FirstShortPage(last.listing)
          /\ last.fetched.activities =
                SelectSeq(SubSeq(last.listing, 1,
                                 IF last.fetched.requests * PerPage
                                       < Len(last.listing)
                                 THEN last.fetched.requests * PerPage
                                 ELSE Len(last.listing)),
                          IsRun)

C25_Witness ==
    /\ last.op = "fetch"
    /\ ~ last.fetched.raised
    /\ Len(last.listing) = 1
    /\ last.fetched.requests = 1
    /\ \E i \in 1..Len(last.listing) : ~ IsRun(last.listing[i])
    /\ last.fetched.activities = <<>>

\* The number a sequence of digits denotes.
RECURSIVE Num(_)
Num(s) ==
    IF s = <<>> THEN 0
    ELSE Num(SubSeq(s, 1, Len(s) - 1)) * 10
            + (CHOOSE n \in 0..9 : Digit(n) = s[Len(s)])

IsDigits(s) == s # <<>> /\ \A i \in 1..Len(s) : \E n \in 0..9 : Digit(n) = s[i]

\* The text is M:SS: minutes, a colon, two digits of seconds.
IsMSS(t, d) ==
    LET n == Len(t)
    IN  /\ n >= 4 /\ t[n - 2] = ":"
        /\ IsDigits(SubSeq(t, 1, n - 3)) /\ IsDigits(SubSeq(t, n - 1, n))
        /\ Num(SubSeq(t, n - 1, n)) < 60
        /\ Num(SubSeq(t, 1, n - 3)) * 60 + Num(SubSeq(t, n - 1, n)) = d

\* The text is H:MM:SS.
IsHMMSS(t, d) ==
    LET n == Len(t)
    IN  /\ n >= 7 /\ t[n - 2] = ":" /\ t[n - 5] = ":"
        /\ IsDigits(SubSeq(t, 1, n - 6)) /\ IsDigits(SubSeq(t, n - 4, n - 3))
        /\ IsDigits(SubSeq(t, n - 1, n))
        /\ Num(SubSeq(t, n - 4, n - 3)) < 60 /\ Num(SubSeq(t, n - 1, n)) < 60
        /\ Num(SubSeq(t, 1, n - 6)) * 3600 + Num(SubSeq(t, n - 4, n - 3)) * 60
              + Num(SubSeq(t, n - 1, n)) = d

\* C27: the formatted duration of d >= 0 seconds is M:SS when d < 3600
\* and H:MM:SS otherwise, minutes and seconds below 60 and the fields
\* recombining to d (1845 gives 30:45, 3725 gives 1:02:05); it is absent
\* when the duration is absent.
C27_DurationFormatted ==
    last.op = "duration_formatted"
       => /\ last.duration = {} => last.text = {}
          /\ \A d \in last.duration :
                \E t \in last.text :
                   /\ last.text = {t}
                   /\ IF d < 3600 THEN IsMSS(t, d) ELSE IsHMMSS(t, d)
          /\ last.duration = {1845}
                => last.text = {<<"3", "0", ":", "4", "5">>}

C27_Witness ==
    /\ last.op = "duration_formatted"
    /\ last.duration = {3725}
    /\ last.text = {<<"1", ":", "0", "2", ":", "0", "5">>}

----------------------------------------------------------------------------
(* SpecImport: calls of sync_activities_to_db one after the other, each    *)
(* with a list of raw activities that may name an activity more than once  *)
(* (test_strava.py:125-196 calls it so).                                   *)

MaxImport == 3            \* longest argument of one import call

ImportInputs == Seqs(ActIds, MaxImport)

InitImport ==
    /\ runs = {}
    /\ creds = {}
    /\ now = 0
    /\ tz = 0
    /\ last = Result("init", "none", "none")
    /\ pc = Idle
    /\ acts = NoActs
    /\ idx = [p \in Procs |-> 0]
    /\ pending = NoActs
    /\ plan = {}
    /\ today = 1
    /\ authed = FALSE
    /\ lastSync = {}
    /\ cliRuns = {}

\* One call sync_activities_to_db(input); failAt: where the database
\* fails (0: nowhere).  Without such a failure the call can only raise on
\* the UNIQUE constraint.
ImportCall(input, failAt) ==
    LET imported == SyncActivitiesToDb(runs, input, failAt)
    IN  /\ runs' = imported.runs
        /\ last' = IF imported.raised
                   THEN [Result("import", "raised",
                                IF failAt = 0 THEN "IntegrityError"
                                ELSE "StoreError")
                            EXCEPT !.input = input]
                   ELSE [Result("import", "ok", "none")
                            EXCEPT !.synced = imported.synced,
                                   !.skipped = imported.skipped,
                                   !.input = input]
        /\ UNCHANGED <<creds, now, tz, pc, acts, idx, pending, appVars>>

NextImport ==
    \E input \in ImportInputs :
       \E failAt \in 0..(Len(input) + 1) : ImportCall(input, failAt)

SpecImport == InitImport /\ [][NextImport]_vars

\* The Runs of the store that carry the external identifier.
RunsOf(rs, sid) == {r \in rs : r.strava_activity_id = sid}

\* The identifiers the input names.
IdsOf(input) == {input[k] : k \in 1..Len(input)}

\* C24: an import call that meets no database failure succeeds; each
\* activity whose identifier a Run already has is skipped, and for each
\* other one exactly one Run is inserted, with source 'strava' and that
\* identifier; imported + skipped is the input size and the number of
\* Runs grows by imported; no existing Run changes.
C24_ImportSkipsOrInserts ==
    [][/\ (last'.op = "import" /\ last'.error # "StoreError")
              => last'.outcome = "ok"
       /\ (last'.op = "import" /\ last'.outcome = "ok")
              => /\ last'.synced + last'.skipped = Len(last'.input)
                 /\ Cardinality(runs') = Cardinality(runs) + last'.synced
                 /\ runs \subseteq runs'
                 /\ \A r \in runs' \ runs :
                       r.strava_activity_id \in IdsOf(last'.input)
                 /\ \A i \in IdsOf(last'.input) :
                       IF RunsOf(runs, i) # {}
                       THEN RunsOf(runs', i) = RunsOf(runs, i)
                       ELSE /\ Cardinality(RunsOf(runs', i)) = 1
                            /\ \A r \in RunsOf(runs', i) : r.source = "strava"]_vars

C24_Witness ==
    /\ last.op = "import"
    /\ last.outcome = "ok"
    /\ Cardinality(IdsOf(last.input)) = 3
    /\ last.synced = 1
    /\ last.skipped = 2

\* C28: when the input of one import call names an identifier more than
\* once and no Run has it yet, the call does not fail on the uniqueness
\* constraint and inserts exactly one Run for the identifier: the first
\* occurrence counts as imported, every later one as skipped.
C28_RepeatedIdInsertedOnce ==
    [][\A i \in IdsOf(last'.input) :
          (/\ last'.op = "import"
           /\ last'.error # "StoreError"
           /\ Cardinality({k \in 1..Len(last'.input) : last'.input[k] = i}) > 1
           /\ RunsOf(runs, i) = {})
             => /\ last'.outcome = "ok"
                /\ Cardinality(RunsOf(runs', i)) = 1
                /\ last'.synced =
                      Cardinality({j \in IdsOf(last'.input) : RunsOf(runs, j) = {}})
                /\ last'.skipped = Len(last'.input) - last'.synced]_vars

C28_Witness ==
    /\ last.op = "import"
    /\ last.outcome = "ok"
    /\ last.input = <<1, 1>>
    /\ last.synced = 1
    /\ last.skipped = 1
    /\ Cardinality(RunsOf(runs, 1)) = 1

----------------------------------------------------------------------------
(* Frame of the disconnect and of the manual log (SpecLog).                *)

\* C26: a disconnect deletes the credential and leaves every Run, those
\* imported through the credential included, and every plan entry as it
\* was.
C26_DisconnectKeepsRuns ==
    [][(last'.op = "disconnect" /\ last'.outcome = "ok")
          => creds' = {} /\ runs' = runs /\ plan' = plan]_vars

C26_Witness ==
    /\ last.op = "disconnect"
    /\ last.outcome = "ok"
    /\ creds = {}
    /\ plan # {}
    /\ \E r \in runs : r.source = "strava"
    /\ \E r \in runs : r.source = "manual"

\* C30: a valid manual log for a date adds or updates one manually
\* entered Run and leaves every Run imported from Strava unchanged, those
\* of the same date included.
C30_LogKeepsImportedRuns ==
    [][(last'.op = "log" /\ last'.outcome = "ok")
          => /\ SyncedRuns(runs') = SyncedRuns(runs)
             /\ \A r \in runs' \ runs : r.source = "manual"
             /\ Cardinality(runs' \ runs) <= 1
             /\ Cardinality(runs \ runs') <= 1]_vars

----------------------------------------------------------------------------
(* Concurrent imports that overlap (SpecConc).                             *)

\* C29: when two sync calls overlap and one of them loses the insert race
\* on an identifier, every activity the losing call fetched is still in
\* the store as exactly one Run once that call has finished.
C29_RaceLoserKeepsItsActivities ==
    [][\A p \in Procs :
          (EndsImport(p) /\ last'.error = "IntegrityError")
             => \A k \in 1..Len(acts[p]) :
                   Cardinality(RunsOf(runs', acts[p][k])) = 1]_vars

====
